---------------------------- MODULE Spec2Model ----------------------------
(***************************************************************************)
(* UDPRIP: the distance-vector router of src/router.py.                    *)
(*                                                                         *)
(* Every router runs four threads (listen, update, timeout and the main    *)
(* thread that reads operator commands) over three dictionaries guarded by *)
(* one non-reentrant lock.  A `with self.lock:` block that only reads and   *)
(* writes the dictionaries is one step, taken when the lock is free; the   *)
(* block of _forward_message, which writes to the socket, is two: the      *)
(* lookup that takes the lock, and the send that releases it.  The         *)
(* datagrams in flight are a set; a datagram sent while MaxNet datagrams   *)
(* are in flight is lost (UDP), and so is any datagram Lose picks.         *)
(***************************************************************************)
EXTENDS Integers, Sequences, FiniteSets, TLC

\* ------------------------------------------------------------- bounds
MaxWeight == 2      \* link weights given to add: 1..MaxWeight
MaxDist   == 1      \* distances of the datagrams the environment sends: 0..MaxDist
MaxTime   == 8      \* the clock runs from 0 to MaxTime
MaxNet    == 5      \* datagrams in flight
MaxHops   == 3      \* a trace is followed until it lists MaxHops routers
MaxBusy   == 1      \* threads of a router inside a handler at a time

\* ------------------------------------------------------------- program constants
Period == 1                     \* self.period
Inf    == 1000000               \* float('inf')

Router == {1, 2, 3}             \* 127.0.1.1, 127.0.1.2, 127.0.1.3
Thread == {"listen", "update", "timeout", "main"}
Free   == "free"                \* the lock is not held

VARIABLES
    running,                \* running[r]: the router is started and not shut down
    neighbors,              \* neighbors[r]: neighbor_ip -> weight
    routing_table,          \* routing_table[r]: dest_ip -> <<distance, next_hop>>
    last_update_received,   \* last_update_received[r]: neighbor_ip -> timestamp
    lock,                   \* lock[r]: Free or the thread inside `with self.lock`
    pc,                     \* pc[r][t]: where thread t of router r stands
    local,                  \* local[r][t]: the thread's local variables
    net,                    \* datagrams in flight: [to |-> address, msg |-> message]
    now                     \* time.time()

vars == <<running, neighbors, routing_table, last_update_received, lock, pc, local,
          net, now>>

\* ------------------------------------------------------------- values
EmptyFn == [x \in {} |-> 0]
NoMsg   == [type |-> "none"]
NoLocal == [message |-> NoMsg, next_hop |-> 0, todo |-> {}, neighbor_ip |-> 0,
            distances |-> EmptyFn, current_time |-> 0]

Put(f, k, v) == [x \in DOMAIN f \cup {k} |-> IF x = k THEN v ELSE f[x]]
Without(f, S) == [x \in DOMAIN f \ S |-> f[x]]

\* The thread's blocking point: recvfrom, time.sleep, input().
Home(t) == CASE t = "listen"  -> "recv"
             [] t = "update"  -> "sleep"
             [] t = "timeout" -> "sleep"
             [] t = "main"    -> "input"

update_message(source, destination, distances) ==
    [type |-> "update", source |-> source, destination |-> destination,
     distances |-> distances]
data_message(source, destination, payload) ==
    [type |-> "data", source |-> source, destination |-> destination,
     payload |-> payload]
trace_message(source, destination, routers) ==
    [type |-> "trace", source |-> source, destination |-> destination,
     routers |-> routers]

\* json.dumps of a message, as the payload string of a data message.
json_dumps(message) == [json |-> message]

\* socket.sendto: the datagram is in flight, unless no router is bound to the
\* address or the network is full: then it is lost.
sendto(n, message, address, up) ==
    IF up[address] /\ Cardinality(n) < MaxNet
    THEN n \cup {[to |-> address, msg |-> message]}
    ELSE n

\* ------------------------------------------------------------- construction
\* Router.__init__ of every router of `started`; the others are not running.
Construct(started) ==
    /\ running = [r \in Router |-> r \in started]
    /\ neighbors = [r \in Router |-> EmptyFn]
    /\ routing_table = [r \in Router |-> [d \in {r} |-> <<0, r>>]]
    /\ last_update_received = [r \in Router |-> EmptyFn]
    /\ lock = [r \in Router |-> Free]
    /\ pc = [r \in Router |-> [t \in Thread |-> Home(t)]]
    /\ local = [r \in Router |-> [t \in Thread |-> NoLocal]]
    /\ net = {}
    /\ now = 0

\* ------------------------------------------------------------- thread steps
Goto(r, t, label, loc) ==
    /\ pc' = [pc EXCEPT ![r][t] = label]
    /\ local' = [local EXCEPT ![r][t] = loc]

\* `with self.lock:` entry: the thread blocks until the lock is free.
Lock(r, t) ==
    /\ lock[r] = Free
    /\ lock' = [lock EXCEPT ![r] = t]

\* The end of a `with self.lock:` block.
Release(r) == lock' = [lock EXCEPT ![r] = Free]

\* A `with self.lock:` block run in one step: entered when the lock is free
\* and left with the lock free.
WithLock(r) ==
    /\ lock[r] = Free
    /\ lock' = lock

\* ------------------------------------------------------------- operator commands
\* add_link, the route it installs.
add_link_route(table, neighbor_ip, weight) ==
    IF neighbor_ip \notin DOMAIN table \/ table[neighbor_ip][1] > weight
    THEN Put(table, neighbor_ip, <<weight, neighbor_ip>>)
    ELSE table

\* _process_command 'add' (weight check) and add_link.
AddLink(r, neighbor_ip, weight) ==
    /\ pc[r]["main"] = "input"
    /\ weight > 0
    /\ WithLock(r)
    /\ neighbors' = [neighbors EXCEPT ![r] = Put(@, neighbor_ip, weight)]
    /\ routing_table' = [routing_table EXCEPT ![r] =
                             add_link_route(@, neighbor_ip, weight)]
    /\ UNCHANGED <<running, last_update_received, pc, local, net, now>>

\* routes_to_remove without its `dest != self.router_ip`.
routes_to_remove_any(table, neighbor_ip, router_ip) ==
    {dest \in DOMAIN table : table[dest][2] = neighbor_ip}

\* routes_to_remove that spares the neighbor's own route.
routes_to_remove_learned(table, neighbor_ip, router_ip) ==
    {dest \in DOMAIN table :
        table[dest][2] = neighbor_ip /\ dest # router_ip /\ dest # neighbor_ip}

\* routes_to_remove that matches on the destination, not on the next hop.
routes_to_remove_dest(table, neighbor_ip, router_ip) ==
    {dest \in DOMAIN table : dest = neighbor_ip /\ dest # router_ip}

\* routes_to_remove: the destinations routed through neighbor_ip, self excepted.
routes_to_remove(table, neighbor_ip, router_ip) ==
    {dest \in DOMAIN table : table[dest][2] = neighbor_ip /\ dest # router_ip}

\* _process_command 'del' and remove_link.
RemoveLink(r, neighbor_ip) ==
    /\ pc[r]["main"] = "input"
    /\ WithLock(r)
    /\ IF neighbor_ip \in DOMAIN neighbors[r]
       THEN /\ neighbors' = [neighbors EXCEPT ![r] = Without(@, {neighbor_ip})]
            /\ last_update_received' =
                   [last_update_received EXCEPT ![r] = Without(@, {neighbor_ip})]
            /\ routing_table' = [routing_table EXCEPT ![r] =
                   Without(@, routes_to_remove(@, neighbor_ip, r))]
       ELSE UNCHANGED <<neighbors, last_update_received, routing_table>>
    /\ UNCHANGED <<running, pc, local, net, now>>

\* ------------------------------------------------------------- forwarding
\* _forward_message up to its sendto: the lock is taken and the route looked
\* up.  A message without a route is dropped and the lock released.
Forward(r, t, message) ==
    /\ lock[r] = Free
    /\ IF message.destination \in DOMAIN routing_table[r]
       THEN /\ Lock(r, t)
            /\ Goto(r, t, "fwd_cs",
                    [NoLocal EXCEPT !.message = message,
                        !.next_hop = routing_table[r][message.destination][2]])
       ELSE /\ lock' = lock
            /\ Goto(r, t, Home(t), NoLocal)

\* _forward_message, its sendto inside the `with self.lock` and the release.
ForwardSend(r, t) ==
    /\ pc[r][t] = "fwd_cs"
    /\ net' = sendto(net, local[r][t].message, local[r][t].next_hop, running)
    /\ Release(r)
    /\ Goto(r, t, Home(t), NoLocal)
    /\ UNCHANGED <<running, neighbors, routing_table, last_update_received, now>>

\* _process_command 'trace' and send_trace.
SendTrace(r, destination_ip) ==
    /\ pc[r]["main"] = "input"
    /\ Forward(r, "main", trace_message(r, destination_ip, <<r>>))
    /\ UNCHANGED <<running, neighbors, routing_table, last_update_received,
                   net, now>>

\* ------------------------------------------------------------- advertisement intake
\* The rule without its second case, the better route.
accepts_same(table, source_ip, dest_ip, new_distance) ==
    \/ dest_ip \notin DOMAIN table
    \/ table[dest_ip][2] = source_ip

\* The rule without its third case, the route that came from the same neighbor.
accepts_better(table, source_ip, dest_ip, new_distance) ==
    \/ dest_ip \notin DOMAIN table
    \/ table[dest_ip][1] > new_distance

\* The rule with `>=` for `>` in its second case: a route of equal distance
\* from another neighbor is taken.
accepts_or_equal(table, source_ip, dest_ip, new_distance) ==
    \/ dest_ip \notin DOMAIN table
    \/ table[dest_ip][1] >= new_distance
    \/ table[dest_ip][2] = source_ip

\* The route-selection rule for one advertised (dest_ip, distance).
accepts(table, source_ip, dest_ip, new_distance) ==
    \/ dest_ip \notin DOMAIN table
    \/ table[dest_ip][1] > new_distance
    \/ table[dest_ip][2] = source_ip

\* old_distance that never finds the installed route.
old_distance_inf(table, dest_ip) == Inf

old_distance(table, dest_ip) ==
    IF dest_ip \in DOMAIN table THEN table[dest_ip][1] ELSE Inf

new_distance(distance, sender_weight) == distance + sender_weight

\* The loop of _process_update_message over distances.items(): the table and
\* the `changed` flag once the destinations of `items` have been processed.
RECURSIVE process_routes(_, _, _, _, _, _)
process_routes(table, changed, items, message, router_ip, sender_weight) ==
    IF items = {} THEN [table |-> table, changed |-> changed]
    ELSE LET dest_ip == CHOOSE x \in items : TRUE
             nd == new_distance(message.distances[dest_ip], sender_weight)
             take == /\ dest_ip # router_ip
                     /\ accepts(table, message.source, dest_ip, nd)
         IN process_routes(
                IF take THEN Put(table, dest_ip, <<nd, message.source>>) ELSE table,
                changed \/ (take /\ old_distance(table, dest_ip) # nd),
                items \ {dest_ip}, message, router_ip, sender_weight)

\* _process_update_message that records the time of the message before it
\* looks for the sender among the neighbors.
process_update_message_stamped(nbrs, table, last, message, router_ip, time) ==
    IF message.source \notin DOMAIN nbrs
    THEN [table |-> table, last |-> Put(last, message.source, time),
          changed |-> FALSE]
    ELSE LET res == process_routes(table, FALSE, DOMAIN message.distances,
                                   message, router_ip, nbrs[message.source])
         IN [table |-> res.table, last |-> Put(last, message.source, time),
             changed |-> res.changed]

\* _process_update_message inside its `with self.lock`: the table, the
\* last-heard times and the `changed` flag after a message read at `time`.
\* The update of a non-neighbor is dropped.
process_update_message(nbrs, table, last, message, router_ip, time) ==
    IF message.source \notin DOMAIN nbrs
    THEN [table |-> table, last |-> last, changed |-> FALSE]
    ELSE LET res == process_routes(table, FALSE, DOMAIN message.distances,
                                   message, router_ip, nbrs[message.source])
         IN [table |-> res.table, last |-> Put(last, message.source, time),
             changed |-> res.changed]

\* ProcessUpdate with _send_updates_to_neighbors called inside the
\* `with self.lock` block: the listen thread holds the lock when the round
\* starts.
ProcessUpdate_locked(r, message) ==
    /\ lock[r] = Free
    /\ LET res == process_update_message(neighbors[r], routing_table[r],
                                         last_update_received[r], message, r, now)
       IN /\ routing_table' = [routing_table EXCEPT ![r] = res.table]
          /\ last_update_received' = [last_update_received EXCEPT ![r] = res.last]
          /\ IF res.changed
             THEN /\ lock' = [lock EXCEPT ![r] = "listen"]
                  /\ Goto(r, "listen", "nbrs_acq", NoLocal)
             ELSE /\ lock' = lock
                  /\ Goto(r, "listen", "recv", NoLocal)
    /\ UNCHANGED neighbors

\* _process_update_message: its `with self.lock`, and the call of
\* _send_updates_to_neighbors that follows when `changed` is set.
ProcessUpdate(r, message) ==
    /\ WithLock(r)
    /\ LET res == process_update_message(neighbors[r], routing_table[r],
                                         last_update_received[r], message, r, now)
       IN /\ routing_table' = [routing_table EXCEPT ![r] = res.table]
          /\ last_update_received' = [last_update_received EXCEPT ![r] = res.last]
          /\ IF res.changed
             THEN Goto(r, "listen", "nbrs_acq", NoLocal)
             ELSE Goto(r, "listen", "recv", NoLocal)
    /\ UNCHANGED neighbors

\* _process_data_message: a payload for this router is printed, any other
\* message is forwarded.
ProcessData(r, message) ==
    /\ IF message.destination = r
       THEN UNCHANGED <<lock, pc, local>>
       ELSE Forward(r, "listen", message)
    /\ UNCHANGED <<neighbors, routing_table, last_update_received>>

\* _process_trace_message where only a forwarding router appends itself.
process_trace_forwarders(router_ip, message) ==
    IF message.destination = router_ip
    THEN data_message(router_ip, message.source, json_dumps(message))
    ELSE [message EXCEPT !.routers = Append(@, router_ip)]

\* _process_trace_message before it forwards: the router appends itself and,
\* at the destination, wraps the amended trace in a data message to the source.
process_trace(router_ip, message) ==
    LET amended == [message EXCEPT !.routers = Append(@, router_ip)]
    IN IF message.destination = router_ip
       THEN data_message(router_ip, message.source, json_dumps(amended))
       ELSE amended

ProcessTrace(r, message) ==
    /\ Forward(r, "listen", process_trace(r, message))
    /\ UNCHANGED <<neighbors, routing_table, last_update_received>>

\* _listen_for_messages and _process_message: one datagram read and handled.
\* A trace that lists MaxHops routers is not followed further.
ProcessMessage(r, message) ==
    /\ running[r]
    /\ pc[r]["listen"] = "recv"
    /\ CASE message.type = "update" -> ProcessUpdate(r, message)
         [] message.type = "data"   -> ProcessData(r, message)
         [] message.type = "trace"  -> /\ Len(message.routers) < MaxHops
                                       /\ ProcessTrace(r, message)
    /\ UNCHANGED <<running, now>>

\* recvfrom returns a datagram that a router of the model sent.
Receive(r) ==
    \E d \in net :
        /\ d.to = r
        /\ ProcessMessage(r, d.msg)
        /\ net' = net \ {d}

\* ------------------------------------------------------------- advertising
\* The `for neighbor_ip in neighbors` of _send_updates_to_neighbors: on to the
\* next _send_update_message, or the end of the round.
NextNeighbor(r, t, todo) ==
    IF todo = {}
    THEN Goto(r, t, Home(t), NoLocal)
    ELSE Goto(r, t, "snap_acq", [NoLocal EXCEPT !.todo = todo])

\* _periodic_updates after time.sleep: a round starts if there are neighbors.
PeriodicUpdate(r) ==
    /\ running[r]
    /\ pc[r]["update"] = "sleep"
    /\ DOMAIN neighbors[r] # {}
    /\ Goto(r, "update", "nbrs_acq", NoLocal)
    /\ UNCHANGED <<running, neighbors, routing_table, last_update_received, lock,
                   net, now>>

\* _send_updates_to_neighbors: the list of neighbors is copied under the lock.
ListNeighbors(r, t) ==
    /\ pc[r][t] = "nbrs_acq"
    /\ WithLock(r)
    /\ NextNeighbor(r, t, DOMAIN neighbors[r])
    /\ UNCHANGED <<running, neighbors, routing_table, last_update_received,
                   net, now>>

\* The snapshot without split horizon: every route is advertised.
split_horizon_off(table, neighbor_ip) ==
    [dest_ip \in DOMAIN table |-> table[dest_ip][1]]

\* Split horizon: the distances of the routes whose next hop is not neighbor_ip.
split_horizon(table, neighbor_ip) ==
    [dest_ip \in {d \in DOMAIN table : table[d][2] # neighbor_ip} |-> table[dest_ip][1]]

\* _send_update_message, its `with self.lock`, for the next neighbor of the
\* list.  The list is a set here: a round takes the neighbors in any order.
Snapshot(r, t) ==
    /\ pc[r][t] = "snap_acq"
    /\ WithLock(r)
    /\ \E neighbor_ip \in local[r][t].todo :
          Goto(r, t, "send", [local[r][t] EXCEPT
              !.neighbor_ip = neighbor_ip,
              !.todo = @ \ {neighbor_ip},
              !.distances = split_horizon(routing_table[r], neighbor_ip)])
    /\ UNCHANGED <<running, neighbors, routing_table, last_update_received,
                   net, now>>

\* _send_update_message after the lock: the datagram is built and sent.
SendUpdate(r, t) ==
    /\ pc[r][t] = "send"
    /\ LET neighbor_ip == local[r][t].neighbor_ip
       IN net' = sendto(net, update_message(r, neighbor_ip, local[r][t].distances),
                        neighbor_ip, running)
    /\ NextNeighbor(r, t, local[r][t].todo)
    /\ UNCHANGED <<running, neighbors, routing_table, last_update_received, lock,
                   now>>

\* ------------------------------------------------------------- liveness monitor
\* _check_neighbor_timeouts after time.sleep: the clock is read before the lock.
TimeoutWake(r) ==
    /\ running[r]
    /\ pc[r]["timeout"] = "sleep"
    /\ Goto(r, "timeout", "tmo_acq", [NoLocal EXCEPT !.current_time = now])
    /\ UNCHANGED <<running, neighbors, routing_table, last_update_received, lock,
                   net, now>>

timeout_threshold == 4 * Period

\* timed_out_neighbors with `>=` for `>`.
timed_out_neighbors_ge(last_update, current_time) ==
    {neighbor_ip \in DOMAIN last_update :
        current_time - last_update[neighbor_ip] >= timeout_threshold}

timed_out_neighbors(last_update, current_time) ==
    {neighbor_ip \in DOMAIN last_update :
        current_time - last_update[neighbor_ip] > timeout_threshold}

\* The loop over timed_out_neighbors: each one's routes are removed.
RECURSIVE remove_timed_out(_, _, _)
remove_timed_out(table, timed_out, router_ip) ==
    IF timed_out = {} THEN table
    ELSE LET neighbor_ip == CHOOSE x \in timed_out : TRUE
         IN remove_timed_out(
                Without(table, routes_to_remove(table, neighbor_ip, router_ip)),
                timed_out \ {neighbor_ip}, router_ip)

\* _check_neighbor_timeouts, its `with self.lock`.
CheckNeighborTimeouts(r) ==
    /\ pc[r]["timeout"] = "tmo_acq"
    /\ WithLock(r)
    /\ LET timed_out == timed_out_neighbors(last_update_received[r],
                                            local[r]["timeout"].current_time)
       IN /\ routing_table' = [routing_table EXCEPT ![r] =
                 remove_timed_out(@, timed_out, r)]
          /\ last_update_received' =
                 [last_update_received EXCEPT ![r] = Without(@, timed_out)]
    /\ Goto(r, "timeout", "sleep", NoLocal)
    /\ UNCHANGED <<running, neighbors, net, now>>

\* ------------------------------------------------------------- environment
\* time.time() advances, by one liveness window at a time.
Tick ==
    /\ now + timeout_threshold <= MaxTime
    /\ now' = now + timeout_threshold
    /\ UNCHANGED <<running, neighbors, routing_table, last_update_received, lock,
                   pc, local, net>>

\* UDP loses a datagram.
Lose ==
    /\ \E d \in net : net' = net \ {d}
    /\ UNCHANGED <<running, neighbors, routing_table, last_update_received, lock,
                   pc, local, now>>

\* The datagrams a peer outside the model can send to the port.
DistanceMaps ==
    UNION {[S -> 0..MaxDist] : S \in SUBSET Router}

PeerMessages ==
    {update_message(s, 0, dm) : s \in Router, dm \in DistanceMaps}
    \cup {data_message(s, d, [text |-> "hello"]) : s \in Router, d \in Router}
    \cup {trace_message(s, d, <<s>>) : s \in Router, d \in Router}

\* recvfrom returns a datagram sent by a peer outside the model.
ReceiveFromPeer(r) ==
    /\ \E message \in PeerMessages : ProcessMessage(r, message)
    /\ net' = net

\* ------------------------------------------------------------- one router
\* Router Focus alone, with its four threads, facing arbitrary peers.  At most
\* MaxBusy activities go on at a time: a thread away from its blocking point
\* and a datagram in flight are an activity each.  A command, a peer's
\* datagram or a timer starts an activity; the steps that carry one on are
\* always free to happen.  The operator adds and removes links to `links`.
Focus == 1

Busy(r) == {t \in Thread : pc[r][t] # Home(t)}
Room(r) == Cardinality(Busy(r)) + Cardinality(net) < MaxBusy

OneRouter(links) ==
    \/ \E n \in links, w \in 1..MaxWeight : Room(Focus) /\ AddLink(Focus, n, w)
    \/ \E n \in links : Room(Focus) /\ RemoveLink(Focus, n)
    \/ \E d \in Router : Room(Focus) /\ SendTrace(Focus, d)
    \/ Room(Focus) /\ ReceiveFromPeer(Focus)
    \/ Room(Focus) /\ PeriodicUpdate(Focus)
    \/ Room(Focus) /\ TimeoutWake(Focus)
    \/ Busy(Focus) = {} /\ Receive(Focus)
    \/ CheckNeighborTimeouts(Focus)
    \/ \E t \in {"listen", "main"} : ForwardSend(Focus, t)
    \/ \E t \in {"listen", "update"} : ListNeighbors(Focus, t)
    \/ \E t \in {"listen", "update"} : Snapshot(Focus, t)
    \/ \E t \in {"listen", "update"} : SendUpdate(Focus, t)
    \/ Tick
    \/ Lose

Init == Construct({Focus})

\* The router and its links to the other two addresses.
Next == OneRouter(Router \ {Focus})
Spec == Init /\ [][Next]_vars

\* The router, a link to another address and a link to its own address.
NextSelf == OneRouter({Focus, 2})
SpecSelf == Init /\ [][NextSelf]_vars

\* ------------------------------------------------------------- three routers
\* The triangle of the three routers: the links 1-2 and 2-3 weigh 10 and the
\* link 1-3 weighs 30.  Every router runs; its operator adds each of its links
\* once, at any time, and asks for traces.  A periodic round or a trace starts
\* when the network is idle, so that no more than MaxNet datagrams are ever in
\* flight and none is lost.
Topology == [link \in {{1, 2}, {2, 3}, {1, 3}} |-> IF link = {1, 3} THEN 30 ELSE 10]

Idle == net = {} /\ \A r \in Router : Busy(r) = {}

Configure(r) ==
    \E n \in Router \ {r} :
        /\ n \notin DOMAIN neighbors[r]
        /\ AddLink(r, n, Topology[{r, n}])

Advertise(r) ==
    \/ \E t \in {"listen", "update"} : ListNeighbors(r, t)
    \/ \E t \in {"listen", "update"} : Snapshot(r, t)
    \/ \E t \in {"listen", "update"} : SendUpdate(r, t)

InitNet == Construct(Router)

NextNet ==
    \/ \E r \in Router : Configure(r)
    \/ \E r \in Router : Idle /\ PeriodicUpdate(r)
    \/ \E r \in Router : Advertise(r)
    \/ \E r \in Router, d \in Router : Idle /\ SendTrace(r, d)
    \/ \E r \in Router, t \in {"listen", "main"} : ForwardSend(r, t)
    \/ \E r \in Router : Receive(r)

SpecNet == InitNet /\ [][NextNet]_vars

\* The triangle as a static topology: the operators add links, no trace is
\* sent, and a link is added when the network is idle.
NextStatic ==
    \/ \E r \in Router : Idle /\ Configure(r)
    \/ \E r \in Router : Idle /\ PeriodicUpdate(r)
    \/ \E r \in Router : Advertise(r)
    \/ \E r \in Router : Receive(r)

\* Fair scheduling: the operators configure every link, the timer of
\* _periodic_updates fires again and again, a thread that can take its next
\* step takes it, and a datagram in flight is delivered.
Fairness ==
    \A r \in Router :
        /\ SF_vars(Idle /\ Configure(r))
        /\ SF_vars(Idle /\ PeriodicUpdate(r))
        /\ WF_vars(Advertise(r))
        /\ WF_vars(Receive(r))

SpecStatic == InitNet /\ [][NextStatic]_vars /\ Fairness

\* ------------------------------------------------------------- properties
Table(r)     == routing_table[r]
Neighbors(r) == DOMAIN neighbors[r]
LastHeard(r) == DOMAIN last_update_received[r]
Via(table, hop, router_ip) ==
    {d \in DOMAIN table : d # router_ip /\ table[d][2] = hop}

\* C1: in every reachable state, whatever adds (of any address, the router's
\* own included), dels, updates, data and trace messages and timeout checks
\* came before, the routing table holds the entry of the router's own address,
\* with distance 0 and next hop self.
C1_SelfEntry ==
    \A r \in Router : r \in DOMAIN Table(r) /\ Table(r)[r] = <<0, r>>

\* The router is its own neighbor, has heard from itself and has learned a
\* route from itself, and time has passed.
C1_Witness ==
    /\ Focus \in Neighbors(Focus)
    /\ Focus \in LastHeard(Focus)
    /\ Via(Table(Focus), Focus, Focus) # {}
    /\ now > timeout_threshold
    /\ pc[Focus]["timeout"] = "sleep"

\* C2: whenever the lock is not held, the next hop of every route to another
\* destination than the router itself is a current neighbor.
C2_NextHopIsNeighbor ==
    \A r \in Router :
        lock[r] = Free =>
            \A d \in DOMAIN Table(r) \ {r} : Table(r)[d][2] \in Neighbors(r)

\* After adds, updates and either a del or a timeout: the lock is free, the
\* only neighbor is 2, the route to 3 was learned from 2, and the route to 2
\* is gone.
C2_Witness ==
    /\ now > 0
    /\ lock[Focus] = Free
    /\ Neighbors(Focus) = {2}
    /\ 3 \in DOMAIN Table(Focus) /\ Table(Focus)[3][2] = 2
    /\ 2 \notin DOMAIN Table(Focus)

\* The step is the intake of an update of neighbor s: the listen thread
\* leaves recvfrom and the last-heard time of s is the present.
Heard(s) ==
    /\ pc[Focus]["listen"] = "recv"
    /\ s \in Neighbors(Focus)
    /\ last_update_received'[Focus] = Put(last_update_received[Focus], s, now)

\* C3: the distances of every update datagram built for neighbor N are the
\* entries of the table, at the time of the snapshot, whose next hop is not N,
\* each with its local distance; no destination with next hop N is among them.
C3_SplitHorizon ==
    [][\A r \in Router, t \in {"listen", "update"} :
          /\ Snapshot(r, t) =>
                 LET n         == local'[r][t].neighbor_ip
                     distances == local'[r][t].distances
                 IN /\ n \in local[r][t].todo
                    /\ DOMAIN distances =
                           {d \in DOMAIN Table(r) : Table(r)[d][2] # n}
                    /\ \A d \in DOMAIN distances : distances[d] = Table(r)[d][1]
          /\ SendUpdate(r, t) =>
                 net' \ net \subseteq
                     {[to  |-> local[r][t].neighbor_ip,
                       msg |-> [type |-> "update", source |-> r,
                                destination |-> local[r][t].neighbor_ip,
                                distances |-> local[r][t].distances]]}]_vars

\* An update of router 1 for router 2 is in flight; router 1 routes to 3
\* through 2, and the update has no entry for 3.
C3_Witness ==
    /\ 3 \in DOMAIN Table(1) /\ Table(1)[3][2] = 2
    /\ \E d \in net :
          /\ d.to = 2 /\ d.msg.type = "update" /\ d.msg.source = 1
          /\ DOMAIN d.msg.distances = {1}

\* C4: when an update of current neighbor S is processed, for every advertised
\* (dest, d) with dest other than self and d' = d + weight(S): if there is no
\* route to dest, or the installed distance is greater than d', or the
\* installed next hop is S, the table holds (d', S) for dest afterwards, even
\* when d' is larger than the distance before; otherwise the route to dest is
\* as before.
C4_RouteSelection ==
    [][\A s \in Router : Heard(s) => \A distances \in DistanceMaps :
          ProcessMessage(Focus, update_message(s, 0, distances)) =>
              \A dest \in DOMAIN distances \ {Focus} :
                  LET d1 == distances[dest] + neighbors[Focus][s]
                      old == Table(Focus)
                      new == routing_table'[Focus]
                  IN /\ dest \in DOMAIN new
                     /\ IF \/ dest \notin DOMAIN old
                           \/ old[dest][1] > d1
                           \/ old[dest][2] = s
                        THEN new[dest] = <<d1, s>>
                        ELSE new[dest] = old[dest]]_vars

\* An update has just changed the table, and the route to 3, learned from 2,
\* costs more than the link to 3 would.
C4_Witness ==
    /\ pc[Focus]["listen"] = "nbrs_acq"
    /\ {2, 3} \subseteq Neighbors(Focus)
    /\ 3 \in DOMAIN Table(Focus)
    /\ Table(Focus)[3][2] = 2
    /\ Table(Focus)[3][1] > neighbors[Focus][3]

\* C5: an update whose source is no current neighbor is dropped: the step that
\* takes it from the network leaves the routing table, the neighbors and the
\* last-heard times as they are, leaves the listen thread at recvfrom, with no
\* round of advertisements begun, and sends nothing.
C5_NonNeighborDropped ==
    [][\A d \in net \ net' :
          (d.msg.type = "update" /\ d.msg.source \notin Neighbors(d.to)) =>
              /\ routing_table' = routing_table
              /\ neighbors' = neighbors
              /\ last_update_received' = last_update_received
              /\ pc'[d.to]["listen"] = "recv"
              /\ net' \subseteq net]_vars

\* An update of router 2 is in flight to router 1, which has no link to 2 and
\* is at recvfrom; it has links of its own and a route learned from 3.
C5_Witness ==
    /\ Neighbors(1) = {3}
    /\ pc[1]["listen"] = "recv"
    /\ 2 \in DOMAIN Table(1) /\ Table(1)[2][2] = 3
    /\ \E d \in net : d.to = 1 /\ d.msg.type = "update" /\ d.msg.source = 2

\* C6: an update message processed a second time, right after the first and
\* with nothing in between, leaves the routing table as the first processing
\* left it and sets no `changed`, so that no advertisement follows.
C6_Idempotent ==
    [][\A s \in Router : Heard(s) => \A distances \in DistanceMaps :
          LET message == update_message(s, 0, distances)
          IN ProcessMessage(Focus, message) =>
                 LET again == process_update_message(
                                  neighbors'[Focus], routing_table'[Focus],
                                  last_update_received'[Focus], message, Focus, now')
                 IN /\ again.table = routing_table'[Focus]
                    /\ ~again.changed]_vars

\* An update has just changed the table: two destinations are routed through
\* the neighbor it came from, one of them farther than the neighbor itself.
C6_Witness ==
    /\ pc[Focus]["listen"] = "nbrs_acq"
    /\ \E s \in Neighbors(Focus) :
          /\ s \in LastHeard(Focus)
          /\ Via(Table(Focus), s, Focus) = {2, 3}
          /\ \E d \in {2, 3} : Table(Focus)[d][1] > neighbors[Focus][s]

\* C7: when del N returns for a current neighbor N, N is no neighbor, N has no
\* last-heard time and no route but the self-entry has next hop N, and the
\* routes through the other next hops are as before; del of an address that is
\* no neighbor changes nothing.
C7_Del ==
    [][\A n \in Router :
          RemoveLink(Focus, n) =>
              LET old == Table(Focus)
                  new == routing_table'[Focus]
              IN IF n \in Neighbors(Focus)
                 THEN /\ n \notin DOMAIN neighbors'[Focus]
                      /\ n \notin DOMAIN last_update_received'[Focus]
                      /\ Via(new, n, Focus) = {}
                      /\ DOMAIN new \subseteq DOMAIN old
                      /\ \A d \in DOMAIN old :
                            old[d][2] # n => d \in DOMAIN new /\ new[d] = old[d]
                 ELSE /\ neighbors' = neighbors
                      /\ last_update_received' = last_update_received
                      /\ routing_table' = routing_table]_vars

\* At time 0, when no route has timed out: a link was removed, and with it
\* the route to a remaining neighbor that ran through it.
C7_Witness ==
    /\ now = 0
    /\ pc[Focus]["main"] = "input"
    /\ Neighbors(Focus) = {3}
    /\ DOMAIN Table(Focus) = {Focus}

\* C8: a liveness check removes, for every neighbor N whose last-heard time
\* is more than 4P before the time the check read, the routes with next hop N
\* (the self-entry excepted) and N's last-heard time; it leaves the neighbors
\* and their weights as they are, and the routes through every other next
\* hop, and the last-heard times within 4P.
C8_Timeout ==
    [][CheckNeighborTimeouts(Focus) =>
          LET ct   == local[Focus]["timeout"].current_time
              last == last_update_received[Focus]
              late == {n \in DOMAIN last : ct - last[n] > 4 * Period}
              old  == Table(Focus)
              new  == routing_table'[Focus]
              kept == last_update_received'[Focus]
          IN /\ neighbors' = neighbors
             /\ \A n \in late : Via(new, n, Focus) = {} /\ n \notin DOMAIN kept
             /\ DOMAIN new \subseteq DOMAIN old
             /\ \A d \in DOMAIN old :
                   (d = Focus \/ old[d][2] \notin late) =>
                       d \in DOMAIN new /\ new[d] = old[d]
             /\ DOMAIN kept \subseteq DOMAIN last
             /\ \A n \in DOMAIN last \ late :
                   n \in DOMAIN kept /\ kept[n] = last[n]]_vars

\* A liveness check is under way: one neighbor was heard more than 4P ago,
\* another exactly 4P ago, and each has a route through it.
C8_Witness ==
    /\ pc[Focus]["timeout"] = "tmo_acq"
    /\ LET ct   == local[Focus]["timeout"].current_time
           last == last_update_received[Focus]
       IN \E n1, n2 \in DOMAIN last :
             /\ ct - last[n1] > timeout_threshold
             /\ ct - last[n2] = timeout_threshold
             /\ Via(Table(Focus), n1, Focus) # {}
             /\ Via(Table(Focus), n2, Focus) # {}

\* The messages on their way: in flight, or in the hands of _forward_message.
Forwarding == {x \in Router \X {"listen", "main"} : pc[x[1]][x[2]] = "fwd_cs"}
OnTheWay ==
    {d.msg : d \in net} \cup {local[x[1]][x[2]].message : x \in Forwarding}

\* The trace that data message m answers lists its source first and its
\* destination last; between them stand neither of the two; no router but the
\* last stands twice; and every router of the list but the first is the one
\* before it (a trace to self) or a neighbor of the one before it.
RoundTrip(m) ==
    LET trace   == m.payload.json
        routers == trace.routers
        n       == Len(routers)
    IN /\ trace.type = "trace"
       /\ m.source = trace.destination
       /\ m.destination = trace.source
       /\ n >= 2
       /\ routers[1] = trace.source
       /\ routers[n] = trace.destination
       /\ \A i \in 2..(n - 1) : routers[i] \notin {trace.source, trace.destination}
       /\ \A i, j \in 1..(n - 1) : i # j => routers[i] # routers[j]
       /\ \A i \in 1..(n - 1) :
             routers[i + 1] \in Neighbors(routers[i]) \cup {routers[i]}

\* The reply of router r to trace message m: m with r appended, as the
\* payload of a data message for the source of m.
Reply(r, m) ==
    [type |-> "data", source |-> r, destination |-> m.source,
     payload |-> [json |-> [m EXCEPT !.routers = Append(m.routers, r)]]]

\* A step that takes a trace from the network hands _forward_message the
\* trace with the router appended, or at the destination the reply, whenever
\* it hands it a message; a send of _forward_message puts its message in
\* flight to the next hop.
TraceHandled ==
    /\ \A d \in net \ net' :
          (d.msg.type = "trace" /\ pc'[d.to]["listen"] = "fwd_cs") =>
              local'[d.to]["listen"].message =
                  IF d.msg.destination = d.to
                  THEN Reply(d.to, d.msg)
                  ELSE [d.msg EXCEPT !.routers = Append(d.msg.routers, d.to)]
    /\ \A x \in Forwarding :
          ForwardSend(x[1], x[2]) =>
              net' = net \cup {[to  |-> local[x[1]][x[2]].next_hop,
                                msg |-> local[x[1]][x[2]].message]}

\* C9, as claimed: a trace of A for B that reaches B has B emit a data
\* message for A whose payload is the trace, with a list of routers that
\* begins with A, ends with B and holds the forwarding routers once each, in
\* the order of the path.
C9_AlwaysReplies ==
    /\ [](\A m \in OnTheWay : m.type = "data" => RoundTrip(m))
    /\ [][/\ TraceHandled
          /\ \A d \in net \ net' :
                (d.msg.type = "trace" /\ d.msg.destination = d.to) =>
                    /\ pc'[d.to]["listen"] = "fwd_cs"
                    /\ local'[d.to]["listen"].message = Reply(d.to, d.msg)]_vars

\* C9, as the code has it: B emits the data message when it has a route to A,
\* and drops it when it has none; the payload of the message is the trace,
\* with a list of routers that begins with A, ends with B and holds the
\* forwarding routers once each, in the order of the path.
C9_TraceRoundTrip ==
    /\ [](\A m \in OnTheWay : m.type = "data" => RoundTrip(m))
    /\ [][/\ TraceHandled
          /\ \A d \in net \ net' :
                (d.msg.type = "trace" /\ d.msg.destination = d.to) =>
                    IF d.msg.source \in DOMAIN Table(d.to)
                    THEN /\ pc'[d.to]["listen"] = "fwd_cs"
                         /\ local'[d.to]["listen"].message = Reply(d.to, d.msg)
                    ELSE /\ pc'[d.to]["listen"] = "recv"
                         /\ net' \subseteq net]_vars

\* The reply of router 3 to a trace of router 1 is in flight to router 2: the
\* trace went from 1 through 2 to 3.
C9_Witness ==
    \E d \in net :
        /\ d.to = 2
        /\ d.msg = Reply(3, trace_message(1, 3, <<1, 2>>))

\* Convergence: every router holds, for every other router, a route of the
\* least total weight of any path of the triangle.
Least(r, d) ==
    LET k == CHOOSE x \in Router : x \notin {r, d}
        direct == Topology[{r, d}]
        around == Topology[{r, k}] + Topology[{k, d}]
    IN IF direct <= around THEN direct ELSE around

Converged ==
    \A r \in Router : \A d \in Router \ {r} :
        d \in DOMAIN Table(r) /\ Table(r)[d][1] = Least(r, d)

\* C10: in the static triangle, with every link added at both ends and under
\* fair periodic advertisement and delivery, every router comes to hold for
\* good, for every other router, a route of the least total weight of any
\* path; the route of router 1 to router 3 is (20, 2) then, through router 2.
C10_Convergence ==
    <>[](Converged /\ Table(1)[3] = <<Least(1, 3), 2>>)

\* The network is idle and every table holds the least distances; the route
\* of router 1 to router 3 runs through router 2 and that of 3 to 1 as well.
C10_Witness ==
    /\ Idle
    /\ Converged
    /\ Table(1)[3][2] = 2
    /\ Table(3)[1][2] = 2

\* ------------------------------------------------------------- link removal
\* The converged triangle: every link is configured at both ends, every router
\* holds the least routes and has heard from both neighbors, and the network
\* is idle.
ConvergedTable(r) ==
    [d \in Router |->
        IF d = r THEN <<0, r>>
        ELSE LET k == CHOOSE x \in Router : x \notin {r, d}
             IN IF Topology[{r, d}] = Least(r, d)
                THEN <<Least(r, d), d>>
                ELSE <<Least(r, d), k>>]

InitConverged ==
    /\ running = [r \in Router |-> TRUE]
    /\ neighbors = [r \in Router |-> [n \in Router \ {r} |-> Topology[{r, n}]]]
    /\ routing_table = [r \in Router |-> ConvergedTable(r)]
    /\ last_update_received = [r \in Router |-> [n \in Router \ {r} |-> 0]]
    /\ lock = [r \in Router |-> Free]
    /\ pc = [r \in Router |-> [t \in Thread |-> Home(t)]]
    /\ local = [r \in Router |-> [t \in Thread |-> NoLocal]]
    /\ net = {}
    /\ now = 0

\* Every router has heard, at the present time, from each neighbor that lists
\* it as a neighbor: the rounds of a period have been delivered.
AllHeard ==
    \A r \in Router : \A n \in LastHeard(r) :
        r \in Neighbors(n) => last_update_received[r][n] = now

\* Scenario S2: del 3 at router 2, while the three routers go on with their
\* periodic rounds and their timeout checks; the clock advances by a liveness
\* window once the rounds of the window have been delivered.
NextRemoval ==
    \/ Idle /\ 3 \in Neighbors(2) /\ RemoveLink(2, 3)
    \/ \E r \in Router : Idle /\ PeriodicUpdate(r)
    \/ \E r \in Router : Advertise(r)
    \/ \E r \in Router : Receive(r)
    \/ \E r \in Router : Idle /\ TimeoutWake(r)
    \/ \E r \in Router : CheckNeighborTimeouts(r)
    \/ Idle /\ AllHeard /\ Tick

\* Fair scheduling: both timers of every router fire again and again, a thread
\* that can take its next step takes it, a datagram in flight is delivered and
\* the clock advances up to MaxTime.
FairRemoval ==
    /\ \A r \in Router :
          /\ SF_vars(Idle /\ PeriodicUpdate(r))
          /\ SF_vars(Idle /\ TimeoutWake(r))
          /\ WF_vars(Advertise(r))
          /\ WF_vars(Receive(r))
          /\ WF_vars(CheckNeighborTimeouts(r))
    /\ SF_vars(Idle /\ AllHeard /\ Tick)

SpecRemoval == InitConverged /\ [][NextRemoval]_vars /\ FairRemoval

\* C11: from the converged triangle, once del 3 has run at router 2 and the
\* three routers go on advertising, the route of router 1 to router 3 becomes
\* (30, 3), the direct link.
C11_LinkRemoval ==
    (3 \notin Neighbors(2)) ~>
        (3 \in DOMAIN Table(1) /\ Table(1)[3] = <<Topology[{1, 3}], 3>>)

\* After del 3 at router 2, router 1 routes to router 3 through router 2 for
\* as long as router 2 advertises to it.
C11_StaleRoute ==
    (3 \notin Neighbors(2) /\ 2 \in LastHeard(1)) =>
        (3 \in DOMAIN Table(1) /\ Table(1)[3] = <<Least(1, 3), 2>>)

C11_Witness ==
    /\ 3 \notin Neighbors(2)
    /\ now = MaxTime
    /\ Idle
    /\ 2 \in LastHeard(1) /\ last_update_received[1][2] = now
    /\ Table(1)[3] = <<Least(1, 3), 2>>

\* ------------------------------------------------------------- a silent neighbor
\* shutdown: the router stops; its threads leave their loops at their blocking
\* points and its socket is closed.
Shutdown(r) ==
    /\ running[r]
    /\ Busy(r) = {}
    /\ running' = [running EXCEPT ![r] = FALSE]
    /\ UNCHANGED <<neighbors, routing_table, last_update_received, lock, pc,
                   local, net, now>>

\* Routers 1 and 2 are started and 3 is not.
InitSilent == Construct({1, 2})

\* The operators link routers 1 and 2 by `add` at each of them, while both
\* run; router 2 stops at some moment that leaves the clock two liveness
\* windows, before or after its first round.
NextSilent ==
    \/ \E w \in 1..MaxWeight :
          Idle /\ running[2] /\ 2 \notin Neighbors(1) /\ AddLink(1, 2, w)
    \/ \E w \in 1..MaxWeight :
          Idle /\ running[2] /\ 1 \notin Neighbors(2) /\ AddLink(2, 1, w)
    \/ Idle /\ now + 2 * timeout_threshold <= MaxTime /\ Shutdown(2)
    \/ \E r \in {1, 2} : Idle /\ PeriodicUpdate(r)
    \/ \E r \in {1, 2} : Advertise(r)
    \/ \E r \in {1, 2} : Receive(r)
    \/ \E r \in {1, 2} : Idle /\ TimeoutWake(r)
    \/ \E r \in {1, 2} : CheckNeighborTimeouts(r)
    \/ Idle /\ Tick

FairSilent ==
    /\ \A r \in {1, 2} :
          /\ SF_vars(Idle /\ PeriodicUpdate(r))
          /\ SF_vars(Idle /\ TimeoutWake(r))
          /\ WF_vars(Advertise(r))
          /\ WF_vars(Receive(r))
          /\ WF_vars(CheckNeighborTimeouts(r))
    /\ SF_vars(Idle /\ Tick)

SpecSilent == InitSilent /\ [][NextSilent]_vars /\ FairSilent

\* C12: once router 2, a neighbor of router 1 by `add`, has stopped, the
\* table of router 1 comes to hold no entry for router 2, and the entry stays
\* absent from then on.
C12_SilentNeighborRemoved ==
    (2 \in Neighbors(1) /\ ~running[2]) ~> [](2 \notin DOMAIN Table(1))

\* A stopped neighbor whose update router 1 accepted is evicted for good.
C12_HeardNeighborRemoved ==
    (2 \in LastHeard(1) /\ ~running[2]) ~> [](2 \notin DOMAIN Table(1))

C12_Witness ==
    /\ 2 \in Neighbors(1) /\ ~running[2]
    /\ 2 \notin DOMAIN Table(1)
    /\ now = MaxTime

\* ------------------------------------------------------------- forwarding loops
\* The triangle after the six `add` commands and before the first round: every
\* router holds its direct routes only.
InitLinked ==
    /\ running = [r \in Router |-> TRUE]
    /\ neighbors = [r \in Router |-> [n \in Router \ {r} |-> Topology[{r, n}]]]
    /\ routing_table = [r \in Router |->
           [d \in Router |-> IF d = r THEN <<0, r>> ELSE <<Topology[{r, d}], d>>]]
    /\ last_update_received = [r \in Router |-> EmptyFn]
    /\ lock = [r \in Router |-> Free]
    /\ pc = [r \in Router |-> [t \in Thread |-> Home(t)]]
    /\ local = [r \in Router |-> [t \in Thread |-> NoLocal]]
    /\ net = {}
    /\ now = 0

\* The threads of the network that are away from their blocking points.
BusyThreads == {<<r, t>> \in Router \X Thread : pc[r][t] # Home(t)}

\* A periodic round starts while at most one other thread of the network is at
\* work and no datagram is in flight; del 3 at router 2 comes at any moment;
\* router 1 then traces router 3.
NextLoop ==
    \/ \E r \in Router :
          net = {} /\ Cardinality(BusyThreads) <= 1 /\ PeriodicUpdate(r)
    \/ \E r \in Router : Advertise(r)
    \/ \E r \in Router : Receive(r)
    \/ 3 \in Neighbors(2) /\ RemoveLink(2, 3)
    \/ Idle /\ 3 \notin Neighbors(2) /\ SendTrace(1, 3)
    \/ \E r \in Router, t \in {"listen", "main"} : ForwardSend(r, t)

SpecLoop == InitLinked /\ [][NextLoop]_vars

\* The routers a message for `dest` passes when forwarded from router r along
\* the installed next hops, r included, up to `hops` hops.
RECURSIVE Path(_, _, _)
Path(r, dest, hops) ==
    IF r = dest \/ dest \notin DOMAIN Table(r) \/ hops = 0
    THEN <<r>>
    ELSE <<r>> \o Path(Table(r)[dest][2], dest, hops - 1)

NoRepeat(routers) ==
    \A i, j \in 1..Len(routers) : routers[i] = routers[j] => i = j

\* No trace in flight lists a router twice.
NoTraceRevisit ==
    \A d \in net : d.msg.type = "trace" => NoRepeat(d.msg.routers)

\* C13: forwarding is loop-free: no message forwarded hop by hop along the
\* installed next hops visits a router twice, neither on the path the tables
\* lay out for it nor, for a trace in flight, in the routers it has listed.
C13_LoopFree ==
    /\ \A r \in Router, dest \in Router : NoRepeat(Path(r, dest, Cardinality(Router)))
    /\ NoTraceRevisit

\* ------------------------------------------------------------- omitted destinations
\* C14: each update replaces its sender's contribution: after an update of
\* neighbor N is processed, every route through N is to a destination the
\* update lists, at the advertised distance plus the weight of the link to N;
\* no route through N to a destination the update omits remains.
C14_FullReplace ==
    [][\A d \in net \ net' :
          (d.msg.type = "update" /\ d.msg.source \in Neighbors(d.to)) =>
              \A dest \in DOMAIN routing_table'[d.to] \ {d.to} :
                  routing_table'[d.to][dest][2] = d.msg.source =>
                      /\ dest \in DOMAIN d.msg.distances
                      /\ routing_table'[d.to][dest][1] =
                             d.msg.distances[dest] + neighbors[d.to][d.msg.source]]_vars

\* ------------------------------------------------------------- add over a route
\* C15: add N w sets the weight of N to w; when the table held no route to N
\* of distance strictly less than w (none, or one of distance w or more by any
\* next hop), it holds (w, N) for N afterwards; a strictly shorter route is
\* kept as it is.
C15_Add ==
    [][\A n \in Router \ {Focus}, w \in 1..MaxWeight :
          AddLink(Focus, n, w) =>
              /\ neighbors'[Focus][n] = w
              /\ IF n \notin DOMAIN Table(Focus) \/ Table(Focus)[n][1] >= w
                 THEN routing_table'[Focus][n] = <<w, n>>
                 ELSE routing_table'[Focus][n] = Table(Focus)[n]]_vars

\* ------------------------------------------------------------- last-heard times
\* C16: a neighbor N has a last-heard time exactly when an update of N was
\* accepted since the most recent add N.  Step by step: when add N returns, for
\* a new neighbor or for one that is re-added, no update of N has been accepted
\* since, so N has no last-heard time; accepting an update of N gives N one;
\* and a timeout check, which is neither an add nor an update, leaves the
\* neighbors that have a last-heard time as they are.
C16_LastHeard ==
    [][/\ \A n \in Router, w \in 1..MaxWeight :
             AddLink(Focus, n, w) => n \notin DOMAIN last_update_received'[Focus]
       /\ \A s \in Router :
             Heard(s) => s \in DOMAIN last_update_received'[Focus]
       /\ CheckNeighborTimeouts(Focus) =>
             DOMAIN last_update_received'[Focus] = LastHeard(Focus)]_vars

\* The same for add alone.
C16_AddResets ==
    [][\A n \in Router, w \in 1..MaxWeight :
          AddLink(Focus, n, w) => n \notin DOMAIN last_update_received'[Focus]]_vars

\* The same for the timeout check alone.
C16_TimeoutKeeps ==
    [][CheckNeighborTimeouts(Focus) =>
          DOMAIN last_update_received'[Focus] = LastHeard(Focus)]_vars

\* ------------------------------------------------------------- lock discipline
\* The places where a thread is about to enter a `with self.lock` block.
AcquirePoints == {"nbrs_acq", "snap_acq", "tmo_acq"}

\* C17: no thread acquires the lock while it holds it: a thread about to enter
\* a `with self.lock` block is not the holder, so every operation has released
\* the lock before it takes it again.  No thread waits for the lock for ever:
\* whenever the lock is held, its holder is inside _forward_message, where its
\* next step, the send and the release, can be taken.
C17_LockDiscipline ==
    \A r \in Router :
        /\ \A t \in Thread : pc[r][t] \in AcquirePoints => lock[r] # t
        /\ lock[r] # Free =>
               /\ lock[r] \in Thread
               /\ pc[r][lock[r]] = "fwd_cs"
               /\ ENABLED ForwardSend(r, lock[r])

\* The listen thread of router 2 holds the lock, forwarding, while the update
\* thread of router 2 waits to copy the neighbors.
C17_Witness ==
    /\ lock[2] = "listen"
    /\ pc[2]["listen"] = "fwd_cs"
    /\ pc[2]["update"] \in AcquirePoints

\* C18: socket writes are outside the critical section: no thread holds the
\* lock of its router at the step that sends a datagram, be it an update or a
\* forwarded data message, trace or trace reply.
C18_SendOutsideLock ==
    [][\A r \in Router :
          /\ \A t \in {"listen", "update"} : SendUpdate(r, t) => lock[r] # t
          /\ \A t \in {"listen", "main"} : ForwardSend(r, t) => lock[r] # t]_vars

\* The updates alone are sent with the lock released.
C18_UpdatesOutsideLock ==
    [][\A r \in Router, t \in {"listen", "update"} :
          SendUpdate(r, t) => lock[r] # t]_vars

\* ------------------------------------------------------------- triggered updates
\* C19: the step that processes an update of a current neighbor starts a round
\* of advertisements, from the listen thread, exactly when the routing table
\* after the step differs from the table before; no route changes its next hop
\* and keeps its distance; a step that leaves every route as it was goes back
\* to recvfrom.
C19_Readvertise ==
    [][\A s \in Router : Heard(s) => \A distances \in DistanceMaps :
          ProcessMessage(Focus, update_message(s, 0, distances)) =>
              LET old == Table(Focus)
                  new == routing_table'[Focus]
              IN /\ (pc'[Focus]["listen"] = "nbrs_acq") <=> (new # old)
                 /\ (new = old) => pc'[Focus]["listen"] = "recv"
                 /\ \A dest \in DOMAIN old :
                       /\ dest \in DOMAIN new
                       /\ new[dest][2] # old[dest][2] => new[dest][1] # old[dest][1]]_vars

\* An update of neighbor 2 has just moved the route to neighbor 3 from the
\* link, of weight 2, to the path through 2, of distance 1, and the listen
\* thread starts a round.
C19_Witness ==
    /\ pc[Focus]["listen"] = "nbrs_acq"
    /\ {2, 3} \subseteq Neighbors(Focus)
    /\ neighbors[Focus][3] = 2
    /\ last_update_received[Focus] = [n \in {2} |-> now]
    /\ Table(Focus)[3] = <<1, 2>>

\* ------------------------------------------------------------- round against del
\* C20: every update is addressed to an address that is a neighbor at the
\* moment its snapshot is taken, whatever del does during the round: the step
\* that takes the snapshot for an address finds the address among the
\* neighbors, and the step that sends sends to that address.
C20_AddressedToNeighbor ==
    [][\A r \in Router, t \in {"listen", "update"} :
          /\ Snapshot(r, t) => local'[r][t].neighbor_ip \in Neighbors(r)
          /\ SendUpdate(r, t) =>
                 \A d \in net' \ net : d.to = local[r][t].neighbor_ip]_vars

=============================================================================
